---- MODULE Spec2Model ----
(***************************************************************************)
(* A model of the four utilities of goit-algo-hw-05:                       *)
(*   log_parser.py/log_analyzer.py   the log pipeline (Spec, SpecParse)    *)
(*   fibonacci_cache.py              the memoised Fibonacci closure        *)
(*   contact_assistant_bot.py        the contact bot's command loop        *)
(* Text is modelled as sequences of code points, so that strip, split,     *)
(* upper and the ordering used by sorted() are computed, not assumed.      *)
(***************************************************************************)
EXTENDS Integers, Sequences, FiniteSets, TLC

VARIABLES
    argv,           \* log_analyzer: sys.argv
    pc,             \* log_analyzer: position in __main__ / load_logs
    lines,          \* log_analyzer: the lines the file iterator has yielded
    logs,           \* log_analyzer: load_logs' list `logs`, then all_logs
    io_error,       \* log_analyzer: which except clause of load_logs ran
    log_counts,     \* log_analyzer: __main__'s log_counts
    detailed_logs,  \* log_analyzer: __main__'s detailed_logs
    out,            \* log_analyzer: the lines printed so far
    line,           \* parse_log_line: its argument
    parsed_entry,   \* parse_log_line: its return value
    ppc,            \* parse_log_line: called / returned
    cache,          \* caching_fibonacci: the closure's dict
    n_arg,          \* caching_fibonacci: argument of the last call
    result,         \* caching_fibonacci: value the last call returned
    calls,          \* caching_fibonacci: number of calls made
    contacts,       \* bot: the contacts dict (insertion ordered)
    prev_contacts,  \* bot: contacts before the last command
    command,        \* bot: the last parsed command
    args,           \* bot: the last parsed argument list
    reply,          \* bot: what the last command printed
    running         \* bot: the while loop has not hit break

logVars   == <<argv, pc, lines, logs, io_error, log_counts, detailed_logs, out>>
parseVars == <<line, parsed_entry, ppc>>
fibVars   == <<cache, n_arg, result, calls>>
botVars   == <<contacts, prev_contacts, command, args, reply, running>>
vars      == <<logVars, parseVars, fibVars, botVars>>

---------------------------------------------------------------------------
(* Bounds *)
MaxLineLen == 7     \* longest line given to parse_log_line alone
MaxLines   == 3     \* most lines read from one log file
MaxN       == 15    \* largest argument given to fibonacci
MaxCalls   == 3     \* calls made on one closure
MaxArgs    == 3     \* most arguments after a bot command

---------------------------------------------------------------------------
(* Text as code points *)
SPACE == 32

\* the input alphabet: TAB, ' ', 'E', 'e'
Chars == {9, 32, 69, 101}

\* str.isspace for the ASCII range
IsSpace(c) == c \in (9..13) \cup (28..32)

\* str.upper for the ASCII range
UpperChar(c) == IF c \in 97..122 THEN c - 32 ELSE c

Upper(s) == [i \in 1..Len(s) |-> UpperChar(s[i])]

RECURSIVE LStrip(_)
LStrip(s) == IF s # <<>> /\ IsSpace(Head(s)) THEN LStrip(Tail(s)) ELSE s

RECURSIVE RStrip(_)
RStrip(s) ==
    IF s # <<>> /\ IsSpace(s[Len(s)]) THEN RStrip(SubSeq(s, 1, Len(s) - 1)) ELSE s

\* str.strip()
Strip(s) == RStrip(LStrip(s))

\* str.split(sep, maxsplit) for a one-character sep
RECURSIVE Split(_, _, _)
Split(s, sep, maxsplit) ==
    IF maxsplit = 0 \/ \A i \in 1..Len(s) : s[i] # sep
    THEN <<s>>
    ELSE LET i == CHOOSE j \in 1..Len(s) :
                      s[j] = sep /\ \A k \in 1..(j - 1) : s[k] # sep
         IN  <<SubSeq(s, 1, i - 1)>>
                 \o Split(SubSeq(s, i + 1, Len(s)), sep, maxsplit - 1)

\* the order of str comparison, used by sorted()
RECURSIVE StrLess(_, _)
StrLess(a, b) ==
    IF b = <<>> THEN FALSE
    ELSE IF a = <<>> THEN TRUE
    ELSE IF Head(a) # Head(b) THEN Head(a) < Head(b)
    ELSE StrLess(Tail(a), Tail(b))

\* sorted(keys, reverse=True)
RECURSIVE Sorted_descending(_)
Sorted_descending(S) ==
    IF S = {} THEN <<>>
    ELSE LET m == CHOOSE x \in S : \A y \in S : x = y \/ StrLess(y, x)
         IN  <<m>> \o Sorted_descending(S \ {m})

\* sorted(keys)
RECURSIVE Sorted(_)
Sorted(S) ==
    IF S = {} THEN <<>>
    ELSE LET m == CHOOSE x \in S : \A y \in S : x = y \/ StrLess(x, y)
         IN  <<m>> \o Sorted(S \ {m})

\* str(n) for n >= 0
RECURSIVE Str(_)
Str(n) == IF n < 10 THEN <<48 + n>> ELSE Str(n \div 10) \o <<48 + (n % 10)>>

\* format spec "<w": left-justify, pad with spaces to at least w
RECURSIVE PadLeftAligned(_, _)
PadLeftAligned(s, w) == IF Len(s) >= w THEN s ELSE PadLeftAligned(s \o <<SPACE>>, w)

---------------------------------------------------------------------------
(* log_analyzer.py *)

MaxSplit   == 3
MinParts   == 4
LevelWidth == 16
CountWidth == 9

EmptyDict == <<>>

\* truthiness of a dict
Truthy(d) == DOMAIN d # {}

parse_log_line(l) ==
    LET parts == Split(Strip(l), SPACE, MaxSplit)
    IN  IF Len(parts) < MinParts
        THEN EmptyDict
        ELSE [date    |-> parts[1],
              time    |-> parts[2],
              level   |-> parts[3],
              message |-> Strip(parts[4])]

\* the list comprehension of filter_logs_by_level
RECURSIVE SelectLevel(_, _)
SelectLevel(ls, target) ==
    IF ls = <<>> THEN <<>>
    ELSE IF Head(ls).level = target
         THEN <<Head(ls)>> \o SelectLevel(Tail(ls), target)
         ELSE SelectLevel(Tail(ls), target)

\* the filter without level.upper()
filter_logs_by_level_no_upper(ls, level) == SelectLevel(ls, level)

\* the filter folding the case of the record's level as well
filter_logs_by_level_fold_both(ls, level) ==
    LET RECURSIVE Sel(_)
        Sel(r) == IF r = <<>> THEN <<>>
                  ELSE IF Upper(Head(r).level) = Upper(level)
                       THEN <<Head(r)>> \o Sel(Tail(r))
                       ELSE Sel(Tail(r))
    IN  Sel(ls)

filter_logs_by_level(ls, level) ==
    LET target_level == Upper(level)
    IN  SelectLevel(ls, target_level)

\* collections.Counter(levels): one increment per element, in order
RECURSIVE Counter(_, _)
Counter(levels, c) ==
    IF levels = <<>> THEN c
    ELSE LET k == Head(levels)
         IN  Counter(Tail(levels),
                     IF k \in DOMAIN c
                     THEN [c EXCEPT ![k] = @ + 1]
                     ELSE c @@ (k :> 1))

\* the tally folding the case of the level
count_logs_by_level_upper(ls) ==
    Counter([i \in 1..Len(ls) |-> Upper(ls[i].level)], <<>>)

count_logs_by_level(ls) ==
    LET levels == [i \in 1..Len(ls) |-> ls[i].level]
    IN  Counter(levels, <<>>)

\* one printed line
Printed(kind, level, count, text) ==
    [kind |-> kind, level |-> level, count |-> count, text |-> text]

Bar == <<SPACE, 124, SPACE>>
Dash == <<SPACE, 45, SPACE>>

\* the lines display_log_counts prints
display_log_counts(counts) ==
    LET keys == Sorted(DOMAIN counts)
    IN  <<Printed("header", <<>>, 0, <<>>), Printed("separator", <<>>, 0, <<>>)>>
            \o [i \in 1..Len(keys) |->
                    Printed("row", keys[i], counts[keys[i]],
                            PadLeftAligned(keys[i], LevelWidth) \o Bar
                                \o PadLeftAligned(Str(counts[keys[i]]), CountWidth))]

\* the detail line with the time left out
DetailText_no_time(entry) == entry.date \o Dash \o entry.message

\* the f-string of line 111
DetailText(entry) == entry.date \o <<SPACE>> \o entry.time \o Dash \o entry.message

\* lines a log file may hold: well-formed records over three spellings of a
\* level, and lines that are blank, short, doubly spaced or tab-separated
LogLines ==
    {<<69, 32, 69, 32, 69, 32, 69>>,            \* "E E E E"
     <<69, 32, 69, 32, 69, 32, 101>>,           \* "E E E e"
     <<69, 32, 69, 32, 101, 32, 69>>,           \* "E E e E"
     <<69, 32, 69, 32, 69, 101, 32, 101>>,      \* "E E Ee e"
     <<>>,                                      \* ""
     <<69, 32, 69, 32, 69>>,                    \* "E E E"
     <<69, 32, 32, 69, 32, 69>>,                \* "E  E E"
     <<69, 32, 69, 32, 32, 101>>,               \* "E E  e"
     <<69, 9, 69, 9, 69, 9, 69>>}               \* "E\tE\tE\tE"

\* the level argument on the command line
Requests == {<<>>, <<69>>, <<101>>, <<101, 69>>}

Argvs ==
    {<<"log_analyzer.py">>, <<"log_analyzer.py", "app.log">>}
    \cup {<<"log_analyzer.py", "app.log", r>> : r \in Requests}

\* line 100: filter_level is None unless a third argument is given
FilterGiven == Len(argv) > 2
filter_level == argv[3]
\* line 106: `if filter_level:`
FilterTruthy == FilterGiven /\ filter_level # <<>>

InitLog ==
    /\ argv \in Argvs
    /\ pc = "start"
    /\ lines = <<>>
    /\ logs = <<>>
    /\ io_error = "none"
    /\ log_counts = <<>>
    /\ detailed_logs = <<>>
    /\ out = <<>>

IdleLog ==
    /\ argv = <<"log_analyzer.py">>
    /\ pc = "idle"
    /\ lines = <<>>
    /\ logs = <<>>
    /\ io_error = "none"
    /\ log_counts = <<>>
    /\ detailed_logs = <<>>
    /\ out = <<>>

\* lines 95-97
Usage ==
    /\ pc = "start"
    /\ Len(argv) < 2
    /\ out' = Append(out, Printed("usage", <<>>, 0, <<>>))
    /\ pc' = "exit1"
    /\ UNCHANGED <<argv, lines, logs, io_error, log_counts, detailed_logs>>

\* lines 99-102 and 47: load_logs is entered with logs = []
CallLoadLogs ==
    /\ pc = "start"
    /\ Len(argv) >= 2
    /\ logs' = <<>>
    /\ pc' = "open"
    /\ UNCHANGED <<argv, lines, io_error, log_counts, detailed_logs, out>>

\* line 49: open() succeeds
OpenFile ==
    /\ pc = "open"
    /\ pc' = "read"
    /\ UNCHANGED <<argv, lines, logs, io_error, log_counts, detailed_logs, out>>

\* lines 49, 54-55, 58: open() raises FileNotFoundError
OpenNotFound ==
    /\ pc = "open"
    /\ io_error' = "FileNotFoundError"
    /\ out' = Append(out, Printed("error_not_found", <<>>, 0, <<>>))
    /\ pc' = "loaded"
    /\ UNCHANGED <<argv, lines, logs, log_counts, detailed_logs>>

\* lines 49, 56-58: open() raises another OSError
OpenIOError ==
    /\ pc = "open"
    /\ io_error' = "IOError"
    /\ out' = Append(out, Printed("error_reading", <<>>, 0, <<>>))
    /\ pc' = "loaded"
    /\ UNCHANGED <<argv, lines, logs, log_counts, detailed_logs>>

\* lines 50-53: one iteration of the for loop
ReadLine ==
    /\ pc = "read"
    /\ Len(lines) < MaxLines
    /\ \E l \in LogLines :
          LET entry == parse_log_line(l)
          IN  /\ lines' = Append(lines, l)
              /\ logs' = IF Truthy(entry) THEN Append(logs, entry) ELSE logs
    /\ UNCHANGED <<argv, pc, io_error, log_counts, detailed_logs, out>>

\* lines 50, 56-58: the file iterator raises IOError; logs is returned as it is
ReadIOError ==
    /\ pc = "read"
    /\ io_error' = "IOError"
    /\ out' = Append(out, Printed("error_reading", <<>>, 0, <<>>))
    /\ pc' = "loaded"
    /\ UNCHANGED <<argv, lines, logs, log_counts, detailed_logs>>

\* lines 50, 58: the file iterator is exhausted
EndOfFile ==
    /\ pc = "read"
    /\ pc' = "loaded"
    /\ UNCHANGED <<argv, lines, logs, io_error, log_counts, detailed_logs, out>>

\* line 103
CountLogs ==
    /\ pc = "loaded"
    /\ log_counts' = count_logs_by_level(logs)
    /\ pc' = "display"
    /\ UNCHANGED <<argv, lines, logs, io_error, detailed_logs, out>>

\* line 104
DisplayCounts ==
    /\ pc = "display"
    /\ out' = out \o display_log_counts(log_counts)
    /\ pc' = "details"
    /\ UNCHANGED <<argv, lines, logs, io_error, log_counts, detailed_logs>>

\* line 106, filter_level falsy: nothing more is printed
NoDetails ==
    /\ pc = "details"
    /\ ~FilterTruthy
    /\ pc' = "done"
    /\ UNCHANGED <<argv, lines, logs, io_error, log_counts, detailed_logs, out>>

\* lines 106-113
Details ==
    /\ pc = "details"
    /\ FilterTruthy
    /\ LET found == filter_logs_by_level(logs, filter_level)
           title == Printed("details_title", Upper(filter_level), 0, <<>>)
       IN  /\ detailed_logs' = found
           /\ out' = IF found # <<>>
                     THEN out \o <<title>>
                            \o [i \in 1..Len(found) |->
                                  Printed("detail", <<>>, 0, DetailText(found[i]))]
                     ELSE out \o <<title,
                                   Printed("not_found", Upper(filter_level), 0, <<>>)>>
    /\ pc' = "done"
    /\ UNCHANGED <<argv, lines, logs, io_error, log_counts>>

---------------------------------------------------------------------------
(* parse_log_line on its own, over every line of the alphabet *)

AllLines == UNION {[1..n -> Chars] : n \in 0..MaxLineLen}

InitParse ==
    /\ line \in AllLines
    /\ parsed_entry = EmptyDict
    /\ ppc = "called"

IdleParse ==
    /\ line = <<>>
    /\ parsed_entry = EmptyDict
    /\ ppc = "idle"

\* lines 26-36
ParseLine ==
    /\ ppc = "called"
    /\ parsed_entry' = parse_log_line(line)
    /\ ppc' = "returned"
    /\ UNCHANGED line

---------------------------------------------------------------------------
(* fibonacci_cache.py *)

\* fibonacci storing its result under the key n - 1
RECURSIVE fibonacci_wrong_key(_, _)
fibonacci_wrong_key(n, c) ==
    IF n <= 0 THEN [result |-> 0, cache |-> c]
    ELSE IF n = 1 THEN [result |-> 1, cache |-> c]
    ELSE IF n \in DOMAIN c THEN [result |-> c[n], cache |-> c]
    ELSE LET a == fibonacci_wrong_key(n - 1, c)
             b == fibonacci_wrong_key(n - 2, a.cache)
             r == a.result + b.result
         IN  [result |-> r, cache |-> ((n - 1) :> r) @@ b.cache]

\* fibonacci(n) run against cache c: the value returned and the cache left
RECURSIVE fibonacci(_, _)
fibonacci(n, c) ==
    IF n <= 0 THEN [result |-> 0, cache |-> c]
    ELSE IF n = 1 THEN [result |-> 1, cache |-> c]
    ELSE IF n \in DOMAIN c THEN [result |-> c[n], cache |-> c]
    ELSE LET a == fibonacci(n - 1, c)
             b == fibonacci(n - 2, a.cache)
             r == a.result + b.result
         IN  [result |-> r, cache |-> (n :> r) @@ b.cache]

\* line 45: fib = caching_fibonacci()
InitFib ==
    /\ cache = <<>>
    /\ n_arg = 0
    /\ result = 0
    /\ calls = 0

\* lines 47-49: a call fib(n)
CallFib ==
    /\ calls < MaxCalls
    /\ \E n \in (-2)..MaxN :
          LET r == fibonacci(n, cache)
          IN  /\ n_arg' = n
              /\ result' = r.result
              /\ cache' = r.cache
    /\ calls' = calls + 1

---------------------------------------------------------------------------
(* contact_assistant_bot.py *)

\* the contacts dict: its items in insertion order
Has(c, name) == \E i \in 1..Len(c) : c[i].name = name
Get(c, name) == c[CHOOSE i \in 1..Len(c) : c[i].name = name].phone
\* contacts[name] = phone
Put(c, name, phone) ==
    IF Has(c, name)
    THEN [i \in 1..Len(c) |->
            IF c[i].name = name THEN [name |-> name, phone |-> phone] ELSE c[i]]
    ELSE Append(c, [name |-> name, phone |-> phone])

Return(value, c) == [raised |-> "none", value |-> value, contacts |-> c]
Raise(exc, c) == [raised |-> exc, value |-> "", contacts |-> c]

\* the decorator: an exception becomes the message returned
input_error(r) ==
    IF r.raised = "none" THEN r
    ELSE IF r.raised = "KeyError"
         THEN Return("Enter user name or Contact not found.", r.contacts)
    ELSE IF r.raised = "ValueError"
         THEN Return("Give me name and phone please.", r.contacts)
    ELSE IF r.raised = "IndexError"
         THEN Return("Enter the argument for the command.", r.contacts)
    ELSE Return("An unexpected error occurred", r.contacts)

add_contact(a, c) ==
    input_error(
        IF Len(a) # 2 THEN Raise("ValueError", c)
        ELSE Return("Contact added.", Put(c, a[1], a[2])))

\* change_contact without the membership test
change_contact_upsert(a, c) ==
    input_error(
        IF Len(a) # 2 THEN Raise("ValueError", c)
        ELSE Return("Contact updated.", Put(c, a[1], a[2])))

change_contact(a, c) ==
    input_error(
        IF Len(a) # 2 THEN Raise("ValueError", c)
        ELSE IF ~Has(c, a[1]) THEN Raise("KeyError", c)
        ELSE Return("Contact updated.", Put(c, a[1], a[2])))

show_phone(a, c) ==
    input_error(
        IF Len(a) = 0 THEN Raise("IndexError", c)
        ELSE IF ~Has(c, a[1]) THEN Raise("KeyError", c)
        ELSE Return(Get(c, a[1]), c))

all_contacts(c) ==
    IF c = <<>> THEN Return("No contacts saved.", c)
    ELSE Return([i \in 1..Len(c) |-> <<c[i].name, ": ", c[i].phone>>], c)

\* str.lower on the command words typed
Lower(w) == IF w = "ADD" THEN "add" ELSE IF w = "Phone" THEN "phone" ELSE w

\* parse_input on the words of the input line
parse_input(words) ==
    IF words = <<>> THEN [cmd |-> "", args |-> <<>>]
    ELSE [cmd |-> Lower(Head(words)), args |-> Tail(words)]

CmdWords == {"add", "ADD", "change", "phone", "Phone", "all", "hello",
             "close", "exit", "bye"}
ArgWords == {"ann", "555"}
ArgLists == UNION {[1..n -> ArgWords] : n \in 0..MaxArgs}
Inputs == {<<>>} \cup {<<w>> \o a : w \in CmdWords, a \in ArgLists}

\* lines 126-127
InitBot ==
    /\ contacts = <<>>
    /\ prev_contacts = <<>>
    /\ command = ""
    /\ args = <<>>
    /\ reply = ""
    /\ running = TRUE

\* one command handled through a handler that returns r
Handled(p, r) ==
    /\ command' = p.cmd
    /\ args' = p.args
    /\ prev_contacts' = contacts
    /\ contacts' = r.contacts
    /\ reply' = r.value
    /\ UNCHANGED running

\* lines 132-134
Exit ==
    /\ running
    /\ \E w \in Inputs :
          LET p == parse_input(w)
          IN  /\ p.cmd \in {"close", "exit"}
              /\ command' = p.cmd
              /\ args' = p.args
              /\ reply' = "Good bye!"
              /\ running' = FALSE
              /\ prev_contacts' = contacts
              /\ UNCHANGED contacts

\* lines 135-136
Hello ==
    /\ running
    /\ \E w \in Inputs :
          LET p == parse_input(w)
          IN  p.cmd = "hello" /\ Handled(p, Return("How can I help you?", contacts))

\* lines 137-138
Add ==
    /\ running
    /\ \E w \in Inputs :
          LET p == parse_input(w)
          IN  p.cmd = "add" /\ Handled(p, add_contact(p.args, contacts))

\* lines 139-140
Change ==
    /\ running
    /\ \E w \in Inputs :
          LET p == parse_input(w)
          IN  p.cmd = "change" /\ Handled(p, change_contact(p.args, contacts))

\* lines 141-142
Phone ==
    /\ running
    /\ \E w \in Inputs :
          LET p == parse_input(w)
          IN  p.cmd = "phone" /\ Handled(p, show_phone(p.args, contacts))

\* lines 143-144
All ==
    /\ running
    /\ \E w \in Inputs :
          LET p == parse_input(w)
          IN  p.cmd = "all" /\ Handled(p, all_contacts(contacts))

\* lines 145-146: nothing is printed
EmptyInput ==
    /\ running
    /\ \E w \in Inputs :
          LET p == parse_input(w)
          IN  p.cmd = "" /\ Handled(p, Return("", contacts))

\* lines 147-148
Invalid ==
    /\ running
    /\ \E w \in Inputs :
          LET p == parse_input(w)
          IN  /\ p.cmd \notin {"close", "exit", "hello", "add", "change",
                                "phone", "all", ""}
              /\ Handled(p, Return("Invalid command.", contacts))

\* the closure was never called, the bot never started
IdleFib ==
    /\ cache = <<>>
    /\ n_arg = 0
    /\ result = 0
    /\ calls = MaxCalls

IdleBot ==
    /\ contacts = <<>>
    /\ prev_contacts = <<>>
    /\ command = ""
    /\ args = <<>>
    /\ reply = ""
    /\ running = FALSE

---------------------------------------------------------------------------
(* Specifications: one program runs, the others are not started *)

notLog == <<parseVars, fibVars, botVars>>
notBot == <<logVars, parseVars, fibVars>>

Init == InitLog /\ IdleParse /\ IdleFib /\ IdleBot
Next ==
    \/ Usage /\ UNCHANGED notLog
    \/ CallLoadLogs /\ UNCHANGED notLog
    \/ OpenFile /\ UNCHANGED notLog
    \/ OpenNotFound /\ UNCHANGED notLog
    \/ OpenIOError /\ UNCHANGED notLog
    \/ ReadLine /\ UNCHANGED notLog
    \/ ReadIOError /\ UNCHANGED notLog
    \/ EndOfFile /\ UNCHANGED notLog
    \/ CountLogs /\ UNCHANGED notLog
    \/ DisplayCounts /\ UNCHANGED notLog
    \/ NoDetails /\ UNCHANGED notLog
    \/ Details /\ UNCHANGED notLog
Spec == Init /\ [][Next]_vars

SpecParseInit == IdleLog /\ InitParse /\ IdleFib /\ IdleBot
SpecParseNext == ParseLine /\ UNCHANGED <<logVars, fibVars, botVars>>
SpecParse == SpecParseInit /\ [][SpecParseNext]_vars

SpecFibInit == IdleLog /\ IdleParse /\ InitFib /\ IdleBot
SpecFibNext == CallFib /\ UNCHANGED <<logVars, parseVars, botVars>>
SpecFib == SpecFibInit /\ [][SpecFibNext]_vars

SpecBotInit == IdleLog /\ IdleParse /\ IdleFib /\ InitBot
SpecBotNext ==
    \/ Exit /\ UNCHANGED notBot
    \/ Hello /\ UNCHANGED notBot
    \/ Add /\ UNCHANGED notBot
    \/ Change /\ UNCHANGED notBot
    \/ Phone /\ UNCHANGED notBot
    \/ All /\ UNCHANGED notBot
    \/ EmptyInput /\ UNCHANGED notBot
    \/ Invalid /\ UNCHANGED notBot
SpecBot == SpecBotInit /\ [][SpecBotNext]_vars

---------------------------------------------------------------------------
(* Reference notions the claims are stated in *)

\* the tokens of str.split(): the maximal runs of non-whitespace
RECURSIVE TakeWord(_)
TakeWord(s) ==
    IF s = <<>> \/ IsSpace(Head(s)) THEN <<>> ELSE <<Head(s)>> \o TakeWord(Tail(s))

RECURSIVE WhitespaceTokens(_)
WhitespaceTokens(s) ==
    IF s = <<>> THEN <<>>
    ELSE IF IsSpace(Head(s)) THEN WhitespaceTokens(Tail(s))
    ELSE LET w == TakeWord(s)
         IN  <<w>> \o WhitespaceTokens(SubSeq(s, Len(w) + 1, Len(s)))

\* what follows the k-th whitespace-delimited token of s
RECURSIVE AfterToken(_, _)
AfterToken(s, k) ==
    IF k = 0 THEN s
    ELSE IF s = <<>> THEN <<>>
    ELSE IF IsSpace(Head(s)) THEN AfterToken(Tail(s), k)
    ELSE AfterToken(SubSeq(s, Len(TakeWord(s)) + 1, Len(s)), k - 1)

\* lexicographic order of code-point sequences
LexBefore(a, b) ==
    \E k \in 1..(Len(a) + 1) :
        /\ \A j \in 1..(k - 1) : j <= Len(b) /\ a[j] = b[j]
        /\ k <= Len(b)
        /\ (k = Len(a) + 1 \/ a[k] < b[k])

\* the positions of the store whose level is exactly lv
Matching(lv) == {i \in 1..Len(logs) : logs[i].level = lv}
\* the j-th smallest element of a set of positions
Nth(S, j) == CHOOSE i \in S : Cardinality({m \in S : m < i}) = j - 1
\* the subsequence of the store at the positions of S, in store order
StoreAt(S) == [j \in 1..Cardinality(S) |-> logs[Nth(S, j)]]

RECURSIVE SumOver(_, _)
SumOver(f, S) ==
    IF S = {} THEN 0
    ELSE LET k == CHOOSE x \in S : TRUE IN f[k] + SumOver(f, S \ {k})

Loaded == pc \in {"loaded", "display", "details", "done"}
Counted == pc \in {"display", "details", "done"}
Displayed == pc \in {"details", "done"}

\* what was printed after the counts table
DetailOutput ==
    SelectSeq(out, LAMBDA p : p.kind \in {"details_title", "detail", "not_found"})
TableOutput ==
    SelectSeq(out, LAMBDA p : p.kind \in {"header", "separator", "row"})

\* the two forms of the detail view for a requested level L
DetailForms(L) ==
    LET S == Matching(Upper(L))
    IN  /\ Len(DetailOutput) >= 1
        /\ DetailOutput[1] = Printed("details_title", Upper(L), 0, <<>>)
        /\ Tail(DetailOutput) =
             IF S = {}
             THEN <<Printed("not_found", Upper(L), 0, <<>>)>>
             ELSE [j \in 1..Cardinality(S) |->
                     Printed("detail", <<>>, 0,
                             logs[Nth(S, j)].date \o <<32>> \o logs[Nth(S, j)].time
                                 \o <<32, 45, 32>> \o logs[Nth(S, j)].message)]
        /\ SubSeq(out, Len(out) - Len(DetailOutput) + 1, Len(out)) = DetailOutput

---------------------------------------------------------------------------
(* Claims *)

\* C1: the number of records load_logs has stored equals the number of lines
\* read whose whitespace-split token count is at least 4.
C1_RecordsAreFourTokenLines ==
    Len(logs) = Cardinality({i \in 1..Len(lines) :
                                Len(WhitespaceTokens(lines[i])) >= 4})

\* C2: a record returned by parse_log_line holds the first, second and third
\* whitespace-delimited tokens of the line as date, time and level, each
\* non-empty, and the stripped remainder after the third token as message.
C2_FieldsAreWhitespaceTokens ==
    (ppc = "returned" /\ Truthy(parsed_entry)) =>
        LET toks == WhitespaceTokens(line)
        IN  /\ Len(toks) >= 3
            /\ parsed_entry.date = toks[1]
            /\ parsed_entry.time = toks[2]
            /\ parsed_entry.level = toks[3]
            /\ parsed_entry.message = Strip(AfterToken(line, 3))

\* C3: filter_logs_by_level(logs, L) is exactly the subsequence of the store
\* whose level equals uppercase(L), in store order, which is the order of the
\* input lines; so is the detailed_logs the pipeline computes.
C3_FilterIsOrderedSubsequence ==
    /\ \A L \in Requests :
         filter_logs_by_level(logs, L) = StoreAt(Matching(Upper(L)))
    /\ (pc = "done" /\ FilterTruthy) =>
         /\ detailed_logs = StoreAt(Matching(Upper(filter_level)))
         /\ Len(detailed_logs) = Cardinality(Matching(Upper(filter_level)))
    /\ LET kept == {i \in 1..Len(lines) : Truthy(parse_log_line(lines[i]))}
       IN  /\ Len(logs) = Cardinality(kept)
           /\ \A j \in 1..Len(logs) : logs[j] = parse_log_line(lines[Nth(kept, j)])

C3_Witness ==
    /\ pc = "done"
    /\ FilterTruthy
    /\ filter_level = <<101>>
    /\ Len(detailed_logs) = 2
    /\ detailed_logs[1] # detailed_logs[2]
    /\ Len(logs) = 3
    /\ logs[2].level = <<101>>

\* C4: the keys of count_logs_by_level are exactly the distinct level strings
\* of the store, each valued with the number of records of exactly that
\* level, and the values sum to the size of the store.
C4_CountsTallyExactLevels ==
    Counted =>
        /\ DOMAIN log_counts = {logs[i].level : i \in 1..Len(logs)}
        /\ \A k \in DOMAIN log_counts : log_counts[k] = Cardinality(Matching(k))
        /\ SumOver(log_counts, DOMAIN log_counts) = Len(logs)

C4_Witness ==
    /\ Counted
    /\ <<69>> \in DOMAIN log_counts
    /\ <<101>> \in DOMAIN log_counts
    /\ log_counts[<<69>>] = 2
    /\ log_counts[<<101>>] = 1

\* C5 as stated: whenever a level L is given on the command line, the detail
\* output is the not-found message naming uppercase(L) when no record has that
\* level, and otherwise one "<date> <time> - <message>" line per matching
\* record in store order.
C5_DetailFormsForAnyRequest ==
    (pc = "done" /\ FilterGiven) => DetailForms(filter_level)

\* C5 amended: the same whenever a non-empty level L is given; with no level
\* or an empty one nothing follows the table.
C5_DetailFormsForNonEmptyRequest ==
    pc = "done" =>
        IF FilterTruthy THEN DetailForms(filter_level) ELSE DetailOutput = <<>>

C5_Witness ==
    /\ pc = "done"
    /\ FilterTruthy
    /\ filter_level = <<101>>
    /\ Len(DetailOutput) = 3
    /\ Len(logs) = 3

\* C6: display_log_counts prints the header, the separator and then one row
\* per distinct level, each with its own count, in strictly ascending
\* lexicographic order; for an empty mapping only header and separator.
C6_TableRowsSortedOncePerLevel ==
    Displayed =>
        LET T == TableOutput
            n == Cardinality(DOMAIN log_counts)
        IN  /\ Len(T) = n + 2
            /\ T[1].kind = "header"
            /\ T[2].kind = "separator"
            /\ \A i \in 3..Len(T) :
                 /\ T[i].kind = "row"
                 /\ T[i].level \in DOMAIN log_counts
                 /\ T[i].count = log_counts[T[i].level]
            /\ \A i \in 3..(Len(T) - 1) : LexBefore(T[i].level, T[i + 1].level)
            /\ \A k \in DOMAIN log_counts :
                 Cardinality({i \in 3..Len(T) : T[i].level = k}) = 1

C6_Witness ==
    /\ Displayed
    /\ Len(TableOutput) = 5
    /\ TableOutput[3].level = <<>>
    /\ TableOutput[4].level = <<69, 101>>
    /\ TableOutput[5].level = <<101>>

\* every spelling of a request of up to two letters
CaseRequests == UNION {[1..n -> {69, 101}] : n \in 0..2}

\* C7: a record whose level is not its own uppercase form is counted under its
\* literal key, and is in the result of filter_logs_by_level for no requested
\* level, however it is cased.
C7_MixedCaseCountedNeverFiltered ==
    \A i \in 1..Len(logs) :
        logs[i].level # Upper(logs[i].level) =>
            /\ Counted =>
                 /\ logs[i].level \in DOMAIN log_counts
                 /\ log_counts[logs[i].level] >= 1
            /\ \A L \in CaseRequests :
                 LET f == filter_logs_by_level(logs, L)
                 IN  \A j \in 1..Len(f) : f[j] # logs[i]
            /\ \A j \in 1..Len(detailed_logs) : detailed_logs[j] # logs[i]

C7_Witness ==
    /\ pc = "done"
    /\ FilterTruthy
    /\ filter_level = <<101>>
    /\ Len(logs) = 2
    /\ logs[1].level = <<101>>
    /\ logs[2].level = <<69>>
    /\ Len(detailed_logs) = 1

\* C8: load_logs returns an empty list whenever the file is missing or an I/O
\* error occurs at open or while the lines are read.
C8_ErrorMeansEmptyList ==
    (Loaded /\ io_error # "none") => logs = <<>>

\* the n-th Fibonacci number, F(0) = 0, F(1) = 1, by iteration
RECURSIVE FibPair(_)
FibPair(k) ==
    IF k = 0 THEN <<0, 1>>
    ELSE LET q == FibPair(k - 1) IN <<q[2], q[1] + q[2]>>
F(k) == FibPair(k)[1]

\* C9: every cache entry has a key k >= 2 and the value F(k), and every call
\* fibonacci(n) returned F(n) for n >= 0 and 0 for n <= 0, whatever calls
\* came before.
C9_CacheHoldsFibonacci ==
    /\ \A k \in DOMAIN cache : k >= 2 /\ cache[k] = F(k)
    /\ result = IF n_arg <= 0 THEN 0 ELSE F(n_arg)
    /\ n_arg = 10 => result = 55
    /\ n_arg = 15 => result = 610

C9_Witness ==
    /\ calls = 3
    /\ n_arg = 10
    /\ result = 55
    /\ 15 \in DOMAIN cache

\* the contacts as a set of (name, phone) pairs
Pairs(c) == {<<c[i].name, c[i].phone>> : i \in 1..Len(c)}
ErrorReplies == {"Enter user name or Contact not found.",
                 "Give me name and phone please.",
                 "Enter the argument for the command."}

\* C10: a command answered with an error message leaves contacts unchanged
\* (add or change without exactly 2 arguments, phone without an argument,
\* change or phone of an unknown name are answered so); a successful add or
\* change sets the entry of the given name to the given phone and leaves every
\* other entry unchanged; phone and all never modify contacts.
C10_ContactsChangeOnlyOnSuccess ==
    LET known == Len(args) >= 1 /\ Has(prev_contacts, args[1])
        failed ==
            \/ command \in {"add", "change"} /\ Len(args) # 2
            \/ command = "change" /\ ~known
            \/ command = "phone" /\ (Len(args) = 0 \/ ~known)
    IN  /\ command \in {"add", "change", "phone"} => (failed <=> reply \in ErrorReplies)
        /\ (command # "all" /\ reply \in ErrorReplies) => contacts = prev_contacts
        /\ command \in {"phone", "all"} => contacts = prev_contacts
        /\ (command \in {"add", "change"} /\ ~failed) =>
             /\ Pairs(contacts) =
                  {q \in Pairs(prev_contacts) : q[1] # args[1]}
                      \cup {<<args[1], args[2]>>}
             /\ Len(contacts) = Cardinality(Pairs(contacts))
             /\ reply = IF command = "add" THEN "Contact added." ELSE "Contact updated."
        /\ Cardinality({contacts[i].name : i \in 1..Len(contacts)}) = Len(contacts)

C10_Witness ==
    /\ command = "change"
    /\ reply = "Contact updated."
    /\ Len(contacts) = 2
    /\ contacts # prev_contacts

====
